---- MODULE Spec2Model ----
(***************************************************************************)
(* Model of the reference-image viewer (ReferenceViewer) and of the zoom   *)
(* controls of its docker (ReferenceDocker), src/reference/reference.py.   *)
(*                                                                         *)
(* Numbers.  Pixel coordinates (QPoint, QSize) are integers, as in Qt.      *)
(* Python floats (zoom, initialZoom, minimumZoom, the value carried by     *)
(* sliderReset) are fixed-point integers in units of 1/Scale, every        *)
(* operation rounding to the nearest unit.  QPoint * float, QPoint / float *)
(* and QSize * float round each coordinate with qRound, floor(x + 1/2).    *)
(* None is the empty tuple <<>>; an attribute that was never assigned      *)
(* (minimumZoom before the first resetView with an image) is <<>> too.     *)
(***************************************************************************)
EXTENDS Integers, Sequences, FiniteSets, TLC

\* ------------------------------------------------------------------ bounds
\* Number of input events handled in one behaviour.
MaxSteps == 3

\* Fixed-point unit of the floats: 10^-6.
Kilo == 10 * 100
Scale == Kilo * Kilo

\* ---------------------------------------------------------- float arithmetic
\* round(a * b / Scale) = floor(a*b/Scale + 1/2), computed without leaving
\* 32 bits: a = a1*Kilo + a0, b = b1*Kilo + b0.
Mul(a, b) ==
    LET a1 == a \div Kilo
        a0 == a % Kilo
        b1 == b \div Kilo
        b0 == b % Kilo
        m  == a1 * b0 + a0 * b1
        lo == (a0 * b0 + (Scale \div 2)) \div Kilo
    IN  a1 * b1 + ((m + lo) \div Kilo)

\* Long division: with q and r the quotient and remainder of n by d (d > 0),
\* the quotient and remainder of n * 10^k by d.
RECURSIVE LongDiv(_, _, _, _)
LongDiv(q, r, d, k) ==
    IF k = 0 THEN <<q, r>>
    ELSE LongDiv(q * 10 + ((r * 10) \div d), (r * 10) % d, d, k - 1)

\* round(n * Scale / d) = floor(n*Scale/d + 1/2), d > 0.
Div(n, d) ==
    LET p == LongDiv(n \div d, n % d, d, 6)
    IN  p[1] + (IF 2 * p[2] >= d THEN 1 ELSE 0)

Max(a, b) == IF a >= b THEN a ELSE b
Min(a, b) == IF a <= b THEN a ELSE b

\* Python int(): truncation toward zero, here of n / 2.
TruncHalf(n) == IF n >= 0 THEN n \div 2 ELSE -((-n) \div 2)

\* ------------------------------------------------------------ Qt geometry
\* QPoint +/- QPoint.
PAdd(p, q) == <<p[1] + q[1], p[2] + q[2]>>
PSub(p, q) == <<p[1] - q[1], p[2] - q[2]>>
\* QPoint / float and QPoint * float (also QSize * float): qRound per coordinate.
PointDiv(p, z) == <<Div(p[1], z), Div(p[2], z)>>
PointMul(p, z) == <<Mul(p[1], z), Mul(p[2], z)>>
\* QImage().isNull(): the null image has size 0 x 0.
NullImage == <<0, 0>>
IsNull(img) == img = NullImage
None == <<>>

\* --------------------------------------------------- the docker's zoom maps
\* QSlider range of zoomSlider.
SliderMin == 0
SliderMax == 10000
\* .25, the first argument of the maps and the floor of an absolute zoom.
Quarter == Scale \div 4

\* 2^(d/10), 2^(d/100), 2^(d/1000), 2^(d/10000) for the digits d = 0..9.
Pow2Digit1 == <<1000000, 1071773, 1148698, 1231144, 1319508, 1414214, 1515717, 1624505, 1741101, 1866066>>
Pow2Digit2 == <<1000000, 1006956, 1013959, 1021012, 1028114, 1035265, 1042466, 1049717, 1057018, 1064370>>
Pow2Digit3 == <<1000000, 1000693, 1001387, 1002082, 1002776, 1003472, 1004168, 1004864, 1005561, 1006258>>
Pow2Digit4 == <<1000000, 1000069, 1000139, 1000208, 1000277, 1000347, 1000416, 1000485, 1000555, 1000624>>

RECURSIVE Pow2Int(_)
Pow2Int(n) == IF n = 0 THEN 1 ELSE 2 * Pow2Int(n - 1)

\* math.pow(32/.25, x/10000.0)*.25 for a slider value x: 128^(x/10000) is
\* 2^(7x/10000), the integer part of the exponent a shift and the fraction
\* taken digit by digit.
valueSliderToZoom(x) ==
    LET e  == 7 * x
        ip == e \div SliderMax
        fp == e % SliderMax
        f  == Mul(Mul(Pow2Digit1[((fp \div 1000) % 10) + 1], Pow2Digit2[((fp \div 100) % 10) + 1]),
                  Mul(Pow2Digit3[((fp \div 10) % 10) + 1], Pow2Digit4[(fp % 10) + 1]))
    IN  (f * Pow2Int(ip) + 2) \div 4

\* valueSliderToZoom over the slider's range, tabulated.
SliderZoom == [x \in SliderMin .. SliderMax |-> valueSliderToZoom(x)]

\* The largest s in lo..hi with valueSliderToZoom(s) <= x (the map is increasing).
RECURSIVE LogSearch(_, _, _)
LogSearch(x, lo, hi) ==
    IF lo >= hi THEN lo
    ELSE LET mid == (lo + hi + 1) \div 2
         IN  IF SliderZoom[mid] <= x THEN LogSearch(x, mid, hi)
             ELSE LogSearch(x, lo, mid - 1)

\* QSlider.setValue(int((10000.0*math.log(x/.25)) / math.log(32/.25))) for
\* x > 0: int() truncates toward zero and setValue bounds the value to the
\* slider's range, so every x below .25 gives SliderMin and every x from 32
\* on gives SliderMax; in between it is the inverse of valueSliderToZoom,
\* rounded down.
valueZoomToSlider(x) ==
    IF x < Quarter THEN SliderMin
    ELSE IF x >= SliderZoom[SliderMax] THEN SliderMax
    ELSE LogSearch(x, SliderMin, SliderMax - 1)

\* zoomPresets, in hundredths of a percent; 0 stands for the "Reset view" entry.
zoomPresets == <<0, 2500, 3333, 5000, 6666, 7500, 10000, 20000, 30000, 40000, 60000,
                 80000, 100000, 120000, 160000, 200000, 240000, 280000, 320000>>

\* One hundredth of a percent as a float.
PresetUnit == Scale \div (100 * 100)

\* getZoomPreset(i): x/100.0 for a number, None for the string and for an
\* index out of range.
getZoomPreset(i) ==
    IF i + 1 \in DOMAIN zoomPresets /\ zoomPresets[i + 1] # 0
    THEN <<zoomPresets[i + 1] * PresetUnit>>
    ELSE None

\* ------------------------------------------------------------ ReferenceViewer
\* The operators below take and return the record s of the fields of the
\* viewer and of the docker's controls (see Self), with four logs of the
\* signals emitted while an event is handled and `fault`, the exception that
\* ended the handler ("none" when it returned).
Raise(s, e) == [s EXCEPT !.fault = e]

\* A clampZoom that forgets the floor.
clampZoomNoFloor(s, value) == value

\* clampZoom(value).  The callers raise AttributeError when minimumZoom was
\* never assigned.
clampZoom(s, value) == Max(s.minimumZoom[1], value)

\* QPoint(self.size().width(), self.size().height()) / 2.0
thisCenter(s) == PointDiv(s.size, 2 * Scale)

\* changeZoom(newZoom, absolute) up to its `if emit is True`.
changeZoomBody(s, newZoom, absolute) ==
    LET centerPos == PointDiv(PSub(thisCenter(s), s.origin), s.zoom)
        moved(z)  == [s EXCEPT !.zoom = z,
                               !.origin = PSub(thisCenter(s), PointMul(centerPos, z))]
    IN  IF absolute THEN moved(Max(Quarter, newZoom))
        ELSE IF s.minimumZoom = None THEN Raise(s, "AttributeError")
        ELSE moved(clampZoom(s, Mul(s.initialZoom, newZoom)))

\* A valueChanged slot that passes absolute=True.
zoomSliderValueChangedAbsolute(s, value) ==
    changeZoomBody(s, valueSliderToZoom(value), TRUE)

\* A valueChanged slot that passes emit=True: sliderReset is emitted again.
zoomSliderValueChangedEmit(s, value) ==
    LET c == changeZoomBody([s EXCEPT !.valueChanged = Append(@, value)],
                            valueSliderToZoom(value), FALSE)
    IN  IF c.fault = "none"
        THEN [c EXCEPT !.sliderReset = Append(@, Div(c.zoom, c.initialZoom))]
        ELSE c

\* zoomSlider.valueChanged(value) and its slot: changeZoom(valueSliderToZoom(value)),
\* absolute and emit left at False.
zoomSliderValueChanged(s, value) ==
    changeZoomBody([s EXCEPT !.valueChanged = Append(@, value)],
                   valueSliderToZoom(value), FALSE)

\* The slot of viewer.sliderReset: zoomSlider.setValue(int(valueZoomToSlider(value))).
\* math.log raises ValueError for value <= 0; QSlider emits valueChanged, whose
\* slot runs at once, only when the bounded value differs from the current one.
sliderResetSlot(s, value) ==
    IF value <= 0 THEN Raise(s, "ValueError")
    ELSE LET v == valueZoomToSlider(value)
         IN  IF v = s.zoomSlider THEN s
             ELSE zoomSliderValueChanged([s EXCEPT !.zoomSlider = v], v)

\* resetSlider(): sliderReset.emit(float(zoom/initialZoom)); the connection is
\* direct, so the slot has run when emit returns.
resetSlider(s) ==
    LET value == Div(s.zoom, s.initialZoom)
    IN  sliderResetSlot([s EXCEPT !.sliderReset = Append(@, value)], value)

\* changeZoom(newZoom, absolute, emit)
changeZoom(s, newZoom, absolute, emit) ==
    LET c == changeZoomBody(s, newZoom, absolute)
    IN  IF c.fault = "none" /\ emit THEN resetSlider(c) ELSE c

\* resetView()
resetView(s) ==
    IF IsNull(s.image) THEN s
    ELSE LET initialZoom == Min(Div(s.size[1], s.image[1]), Div(s.size[2], s.image[2]))
             scaled      == PointMul(s.image, initialZoom)
             overflow    == PSub(s.size, scaled)
         IN  resetSlider([s EXCEPT !.initialZoom = initialZoom,
                                   !.minimumZoom = <<Mul(initialZoom, Quarter)>>,
                                   !.zoom = initialZoom,
                                   !.origin = <<TruncHalf(overflow[1]), TruncHalf(overflow[2])>>])

\* Controls that are enabled whatever the image is.
enableControlsAlways(s, isNotNull) == [s EXCEPT !.enabled = TRUE]

\* ReferenceDocker.enableControls(isNotNull), the slot of imageChanged.
enableControls(s, isNotNull) == [s EXCEPT !.enabled = isNotNull]

\* setImage(image)
setImage(s, image) ==
    resetView(enableControls([s EXCEPT !.image = image,
                                       !.imageChanged = Append(@, ~IsNull(image))],
                             ~IsNull(image)))

\* A QColor: the colour of an image pixel, or the invalid colour that
\* QImage.pixelColor returns for a position outside the image.
PixelColor(img, pos) ==
    IF pos[1] >= 0 /\ pos[1] < img[1] /\ pos[2] >= 0 /\ pos[2] < img[2]
    THEN <<"pixel", pos[1], pos[2]>>
    ELSE <<"invalid">>

\* A sample that takes the pointer's offset from the origin as the image
\* coordinate, whatever the zoom.
getCurrentColorUnzoomed(s, pos) ==
    IF ~IsNull(s.image) THEN PixelColor(s.image, PSub(pos, s.origin))
    ELSE None

\* getCurrentColor(event)
getCurrentColor(s, pos) ==
    IF ~IsNull(s.image) THEN PixelColor(s.image, PointDiv(PSub(pos, s.origin), s.zoom))
    ELSE None

\* paintEvent(event): what is drawn.  Nothing without an image; the image, and
\* over it the pick circle and the colour bar when picking is not None.  The
\* bar is filled with currentColor: fillRect raises TypeError for None.
paintEvent(s) ==
    IF IsNull(s.image) THEN <<>>
    ELSE IF s.picking = None THEN <<"image">>
    ELSE IF s.currentColor = None THEN <<"image", "circle", "TypeError">>
    ELSE <<"image", "circle", s.currentColor>>

\* mousePressEvent(event).  colorPicked is pyqtSignal(QColor): emitting None
\* raises TypeError.
mousePressEvent(s, pos) ==
    LET p == [s EXCEPT !.pressedPoint = pos, !.oldOrigin = s.origin, !.oldZoom = <<s.zoom>>]
    IN  IF p.picking # None
        THEN IF p.currentColor = None THEN Raise(p, "TypeError")
             ELSE [p EXCEPT !.colorPicked = Append(@, p.currentColor)]
        ELSE p

\* A release that forgets the anchor and leaves the moving flag.
mouseReleaseEventKeepsMoving(s) == [s EXCEPT !.pressedPoint = None]

\* mouseReleaseEvent(event)
mouseReleaseEvent(s) == [s EXCEPT !.pressedPoint = None, !.moving = FALSE]

\* Divisors of the drag and wheel zoom steps.
DragStep == 100
WheelStep == 500

\* A pan that starts from the current origin instead of the origin at press.
panOriginFromCurrent(s, pos) == PAdd(PSub(s.origin, s.pressedPoint), pos)

\* self.oldOrigin - self.pressedPoint + event.pos()
panOrigin(s, pos) == PAdd(PSub(s.oldOrigin, s.pressedPoint), pos)

\* mouseMoveEvent(event): alt is event.modifiers() & Qt.AltModifier, ctrl is
\* QApplication.keyboardModifiers() & Qt.ControlModifier.
mouseMoveEvent(s, pos, alt, ctrl) ==
    IF s.pressedPoint = None THEN s
    ELSE LET m == IF alt
                  THEN [s EXCEPT !.moving = TRUE,
                                 !.currentColor = getCurrentColor(s, pos),
                                 !.picking = pos]
                  ELSE [s EXCEPT !.moving = TRUE, !.picking = None]
         IN  IF m.moving /\ m.picking = None
             THEN IF ctrl
                  THEN LET zoomDelta == m.pressedPoint[2] - pos[2]
                           centerPos == PointDiv(PSub(m.pressedPoint, m.oldOrigin), m.oldZoom[1])
                       IN  IF m.minimumZoom = None THEN Raise(m, "AttributeError")
                           ELSE LET z == clampZoom(m, m.oldZoom[1]
                                                      + Mul(Div(zoomDelta, DragStep), m.oldZoom[1]))
                                IN  resetSlider([m EXCEPT !.zoom = z,
                                                          !.origin = PSub(m.pressedPoint,
                                                                          PointMul(centerPos, z))])
                  ELSE [m EXCEPT !.origin = panOrigin(m, pos)]
             ELSE m

\* wheelEvent(event): pos is event.pos(), delta is event.angleDelta().y().
wheelEvent(s, pos, delta) ==
    LET centerPos == PointDiv(PSub(pos, s.origin), s.zoom)
    IN  IF s.minimumZoom = None THEN Raise(s, "AttributeError")
        ELSE LET z == clampZoom(s, s.zoom + Mul(Div(delta, WheelStep), s.zoom))
                 r == resetSlider([s EXCEPT !.zoom = z])
             IN  IF r.fault # "none" THEN r
                 ELSE [r EXCEPT !.origin = PSub(pos, PointMul(centerPos, r.zoom))]

\* resizeEvent(event): the widget has its new size when the handler runs.
resizeEvent(s, size) == resetView([s EXCEPT !.size = size])

\* A QUrl of a drop: a local file, with the QImage its path decodes to (the null
\* image for a file that is no image), or a URL that is no local file.
LocalFile(img) == <<"file", img>>
RemoteUrl == <<"http">>
isLocalFile(url) == url[1] = "file"

\* dropEvent(event): urls is event.mimeData().urls().
dropEvent(s, urls) ==
    LET path == urls[1]
    IN  IF isLocalFile(path) THEN setImage(s, path[2]) ELSE s

\* ------------------------------------------------------------ ReferenceDocker
\* setZoomPreset(index), the slot of zoomCombo.currentIndexChanged.
setZoomPreset(s, index) ==
    LET newZoom == getZoomPreset(index)
    IN  IF newZoom = None THEN changeZoom(s, Scale, FALSE, TRUE)
        ELSE changeZoom(s, newZoom[1], TRUE, TRUE)

\* centerView(), closeImage() and openImage() as far as the viewer goes.
centerView(s) == resetView(s)
closeImage(s) == setImage(s, NullImage)
openImage(s, image) == setImage(s, image)

\* ---------------------------------------------------------------- the inputs
\* Sizes (width, height) of the images that are opened, and of the viewer.
Images == {<<1000, 500>>, <<250, 250>>}
Sizes == {<<500, 500>>, <<1000, 500>>}
\* Pointer positions of press, move and wheel events.
Points == {<<100, 100>>, <<150, 200>>}
\* event.angleDelta().y()
WheelDeltas == {-600, 120, 500}
\* Values the user drags the slider to, and entries picked in the combo box.
SliderValues == {SliderMin, 5000}
PresetIndexes == {0, 1, 7, 18}
\* URL lists that are dropped on the viewer; dragEnterEvent accepts a drag
\* only if it has URLs.
DropPayloads ==
    {<<RemoteUrl>>, <<RemoteUrl, LocalFile(<<250, 250>>)>>,
     <<LocalFile(<<250, 250>>)>>, <<LocalFile(<<1000, 500>>), LocalFile(NullImage)>>}
\* Zoom above which no further event is generated (keeps the numbers in 32 bits).
ZoomCap == 100 * Scale

\* ------------------------------------------------------------------ the state
VARIABLES
    image, size,                    \* QImage (its size), size of the widget
    zoom, initialZoom, minimumZoom, \* floats; minimumZoom is <<>> until assigned
    oldZoom, origin, oldOrigin,     \* zoom and origin at press; origin
    pressedPoint, moving,
    currentColor, picking,
    zoomSlider, zoomCombo, enabled, \* slider value, combo index, enableControls
    sliderReset, colorPicked, imageChanged, \* values emitted by the last event
    valueChanged,                   \* values zoomSlider emitted in the last event
    fault,                          \* exception that ended the last handler
    event,                          \* the last event and its inputs
    steps,                          \* number of events still to be delivered
    lastPan                         \* history of the pan of the current press

vars == <<image, size, zoom, initialZoom, minimumZoom, oldZoom, origin, oldOrigin,
          pressedPoint, moving, currentColor, picking, zoomSlider, zoomCombo, enabled,
          sliderReset, colorPicked, imageChanged, valueChanged, fault, event, steps,
          lastPan>>

\* The fields as one record.
Self ==
    [image |-> image, size |-> size, zoom |-> zoom, initialZoom |-> initialZoom,
     minimumZoom |-> minimumZoom, oldZoom |-> oldZoom, origin |-> origin,
     oldOrigin |-> oldOrigin, pressedPoint |-> pressedPoint, moving |-> moving,
     currentColor |-> currentColor, picking |-> picking, zoomSlider |-> zoomSlider,
     zoomCombo |-> zoomCombo, enabled |-> enabled, sliderReset |-> sliderReset,
     colorPicked |-> colorPicked, imageChanged |-> imageChanged,
     valueChanged |-> valueChanged, fault |-> fault]

\* ReferenceViewer.__init__ in a widget of the given size, then the zoom row
\* of ReferenceDocker.__init__ and its enableControls(False).
Constructed(sz) ==
    [image |-> NullImage, size |-> sz, zoom |-> Scale, initialZoom |-> Scale,
     minimumZoom |-> None, oldZoom |-> None, origin |-> <<0, 0>>,
     oldOrigin |-> None, pressedPoint |-> None, moving |-> FALSE,
     currentColor |-> None, picking |-> None,
     zoomSlider |-> valueZoomToSlider(Scale), zoomCombo |-> 0, enabled |-> FALSE,
     sliderReset |-> <<>>, colorPicked |-> <<>>, imageChanged |-> <<>>,
     valueChanged |-> <<>>, fault |-> "none"]

\* The end of ReferenceDocker.__init__: the image of the 'lastref' setting, if
\* there is one, is loaded (a file that does not decode gives the null image).
DockerInit(sz, lastref) ==
    IF lastref = None THEN Constructed(sz) ELSE setImage(Constructed(sz), lastref[1])

Event(op, pos, alt, ctrl, arg) == [op |-> op, pos |-> pos, alt |-> alt, ctrl |-> ctrl, arg |-> arg]

\* The variables take the fields of s.
Becomes(s) ==
    /\ image' = s.image /\ size' = s.size /\ zoom' = s.zoom
    /\ initialZoom' = s.initialZoom /\ minimumZoom' = s.minimumZoom
    /\ oldZoom' = s.oldZoom /\ origin' = s.origin /\ oldOrigin' = s.oldOrigin
    /\ pressedPoint' = s.pressedPoint /\ moving' = s.moving
    /\ currentColor' = s.currentColor /\ picking' = s.picking
    /\ zoomSlider' = s.zoomSlider /\ zoomCombo' = s.zoomCombo /\ enabled' = s.enabled
    /\ sliderReset' = s.sliderReset /\ colorPicked' = s.colorPicked
    /\ imageChanged' = s.imageChanged /\ valueChanged' = s.valueChanged
    /\ fault' = s.fault

\* The viewer starts with the fields of s and n events to come.
Starts(s, n) ==
    /\ image = s.image /\ size = s.size /\ zoom = s.zoom
    /\ initialZoom = s.initialZoom /\ minimumZoom = s.minimumZoom
    /\ oldZoom = s.oldZoom /\ origin = s.origin /\ oldOrigin = s.oldOrigin
    /\ pressedPoint = s.pressedPoint /\ moving = s.moving
    /\ currentColor = s.currentColor /\ picking = s.picking
    /\ zoomSlider = s.zoomSlider /\ zoomCombo = s.zoomCombo /\ enabled = s.enabled
    /\ sliderReset = s.sliderReset /\ colorPicked = s.colorPicked
    /\ imageChanged = s.imageChanged /\ valueChanged = s.valueChanged
    /\ fault = s.fault
    /\ event = Event("init", None, FALSE, FALSE, 0)
    /\ steps = n
    /\ lastPan = None

Init ==
    \E sz \in Sizes, lastref \in {None} \cup {<<i>> : i \in Images \cup {NullImage}} :
        Starts(DockerInit(sz, lastref), MaxSteps)

\* The state an event handler starts in: the logs of the event before are dropped.
Start ==
    [Self EXCEPT !.sliderReset = <<>>, !.colorPicked = <<>>, !.imageChanged = <<>>,
                 !.valueChanged = <<>>]

\* An event is delivered only while no handler has raised and the bounds allow.
Ready == fault = "none" /\ steps > 0 /\ zoom <= ZoomCap

\* ev is a move that pans: a button is held, neither Alt nor Ctrl is.
PanMove(ev) == ev.op = "move" /\ ~ev.alt /\ ~ev.ctrl /\ pressedPoint # None

\* lastPan after event ev that leaves the origin at o and the zoom at z.  Within
\* one press it holds, from the first pan move on, the pointer position and the
\* origin of the last pan move, whether an event other than a move has changed
\* origin or zoom since then, and whether such an event came between the last
\* two pan moves.
Panning(ev, o, z) ==
    IF ev.op \in {"press", "release"} THEN None
    ELSE IF PanMove(ev) THEN <<ev.pos, o, FALSE, lastPan # None /\ lastPan[3]>>
    ELSE IF lastPan = None THEN None
    ELSE <<lastPan[1], lastPan[2],
           lastPan[3] \/ (ev.op # "move" /\ (o # origin \/ z # zoom)), lastPan[4]>>

Handled(ev, s) ==
    /\ \E after \in {s} : Becomes(after) /\ lastPan' = Panning(ev, after.origin, after.zoom)
    /\ event' = ev
    /\ steps' = steps - 1

\* ----------------------------------------------------------------- the events
MousePress ==
    \E pos \in Points, alt \in BOOLEAN :
        Ready /\ Handled(Event("press", pos, alt, FALSE, 0), mousePressEvent(Start, pos))

MouseRelease ==
    Ready /\ Handled(Event("release", None, FALSE, FALSE, 0), mouseReleaseEvent(Start))

MouseMove ==
    \E pos \in Points, alt \in BOOLEAN, ctrl \in BOOLEAN :
        Ready /\ Handled(Event("move", pos, alt, ctrl, 0), mouseMoveEvent(Start, pos, alt, ctrl))

Wheel ==
    \E pos \in Points, delta \in WheelDeltas :
        Ready /\ Handled(Event("wheel", pos, FALSE, FALSE, delta), wheelEvent(Start, pos, delta))

Resize ==
    \E sz \in Sizes \ {size} :
        Ready /\ Handled(Event("resize", None, FALSE, FALSE, 0), resizeEvent(Start, sz))

Drop ==
    \E urls \in DropPayloads :
        Ready /\ Handled(Event("drop", None, FALSE, FALSE, urls), dropEvent(Start, urls))

\* The open button is always enabled; the dialog gives an image or a file
\* that does not decode.
OpenImage ==
    \E img \in Images \cup {NullImage} :
        Ready /\ Handled(Event("open", None, FALSE, FALSE, 0), openImage(Start, img))

\* The controls below are usable only while enableControls(True) holds.
CloseImage ==
    Ready /\ enabled /\ Handled(Event("close", None, FALSE, FALSE, 0), closeImage(Start))

CenterView ==
    Ready /\ enabled /\ Handled(Event("resetView", None, FALSE, FALSE, 0), centerView(Start))

\* The user moves the slider: QSlider emits valueChanged for a new value only.
SliderMoved ==
    \E value \in SliderValues \ {zoomSlider} :
        Ready /\ enabled
        /\ Handled(Event("slider", None, FALSE, FALSE, value),
                   zoomSliderValueChanged([Start EXCEPT !.zoomSlider = value], value))

\* The user picks an entry: QComboBox emits currentIndexChanged for a new index only.
PresetSelected ==
    \E index \in PresetIndexes \ {zoomCombo} :
        Ready /\ enabled
        /\ Handled(Event("preset", None, FALSE, FALSE, index),
                   setZoomPreset([Start EXCEPT !.zoomCombo = index], index))

Next ==
    \/ MousePress \/ MouseRelease \/ MouseMove \/ Wheel \/ Resize
    \/ Drop \/ OpenImage \/ CloseImage \/ CenterView \/ SliderMoved \/ PresetSelected

Spec == Init /\ [][Next]_vars

\* Runs that start where a drag starts: a 500 x 500 viewer whose lastref
\* setting names a 250 x 250 image has been constructed and has handled its
\* first press.
PanSteps == 3
PanInit ==
    \E pos \in Points :
        Starts(mousePressEvent(DockerInit(<<500, 500>>, <<<<250, 250>>>>), pos), PanSteps)
PanSpec == PanInit /\ [][Next]_vars

\* ------------------------------------------------------------------ claims
Loaded == ~IsNull(image)
\* The last event was a move that zoomed: button held, Ctrl and not Alt.
DragZoomed == event.op = "move" /\ event.ctrl /\ ~event.alt /\ pressedPoint # None
\* The last event was a move that panned: button held, neither Ctrl nor Alt.
Panned == event.op = "move" /\ ~event.ctrl /\ ~event.alt /\ pressedPoint # None
\* The last event picked a percentage in the combo box.
PresetPicked == event.op = "preset" /\ getZoomPreset(event.arg) # None

\* C1 as stated: with an image loaded, zoom >= minimumZoom in every reachable
\* state.
C1_ZoomAtLeastMinimum == Loaded => zoom >= minimumZoom[1]

\* C1 amended: with an image loaded, zoom is never below the lower of the two
\* floors, minimumZoom (gestures, slider, "Reset view") and 0.25 (percentage
\* presets).
C1_ZoomAtLeastLowerFloor == Loaded => zoom >= Min(minimumZoom[1], Quarter)

\* C1 witness: a percentage preset has left zoom at 0.25, under minimumZoom.
C1_Witness ==
    Loaded /\ PresetPicked /\ fault = "none" /\ zoom = Quarter /\ minimumZoom[1] > Quarter

\* C2: after every wheel event and every Ctrl-drag move handled with an image
\* loaded, zoom >= minimumZoom, whatever the delta or the drag distance.
C2_GestureZoomFloor ==
    (Loaded /\ (event.op = "wheel" \/ DragZoomed)) => zoom >= minimumZoom[1]

\* C2 witness: a downward Ctrl-drag of 100 pixels or more (unclamped zoom zero
\* or negative) has ended at minimumZoom.
C2_Witness ==
    /\ Loaded /\ DragZoomed /\ fault = "none"
    /\ pressedPoint[2] - event.pos[2] <= -DragStep
    /\ zoom = minimumZoom[1]

\* C3 as stated: once a percentage preset has been handled, slider reaction
\* included, zoom >= 0.25.
C3_PresetZoomAtLeastQuarter == (PresetPicked /\ fault = "none") => zoom >= Quarter

\* Image coordinate, in thousandths of an image pixel, shown at viewport
\* coordinate p when the origin coordinate is o and the zoom is z.
ImagePointMilli(p, o, z) == Div((p - o) * Kilo, z)
Abs(n) == IF n >= 0 THEN n ELSE -n
\* A twentieth of an image pixel: far above the rounding of floats (and of this
\* model's fixed-point numbers), far below the rounding of a QPoint.
ToleranceMilli == 5 * 10

\* C4 as stated: a wheel event at p leaves (p - origin)/zoom where it was, up
\* to floating-point tolerance.
C4_WheelKeepsCursorPoint ==
    [][(event'.op = "wheel" /\ Loaded /\ fault' = "none") =>
         \A i \in 1 .. 2 :
            Abs(ImagePointMilli(event'.pos[i], origin'[i], zoom')
                - ImagePointMilli(event'.pos[i], origin[i], zoom)) <= ToleranceMilli]_vars

\* C5 as stated: once a percentage preset p has been handled, slider reaction
\* included, zoom = p/100.
C5_PresetZoomExact ==
    (PresetPicked /\ fault = "none") => zoom = getZoomPreset(event.arg)[1]

\* C6 as stated: a resetView() that directly follows a resetView() (same
\* image, same size) leaves zoom, origin and initialZoom as they were.
C6_ResetViewIdempotent ==
    [][(event.op = "resetView" /\ event'.op = "resetView") =>
         (zoom' = zoom /\ origin' = origin /\ initialZoom' = initialZoom)]_vars

\* The fit of image img in a widget of size sz, and the origin that centres it,
\* (sz - img*z)/2 truncated.
FitZoom(img, sz) == Min(Div(sz[1], img[1]), Div(sz[2], img[2]))
CentredOrigin(img, sz, z) ==
    <<TruncHalf((sz[1] * Scale - img[1] * z) \div Scale),
      TruncHalf((sz[2] * Scale - img[2] * z) \div Scale)>>

\* C7 as stated: after resetView() with an image (reset button, resize or
\* setImage), initialZoom is the fit, minimumZoom a quarter of it, zoom equals
\* initialZoom, the origin centres the image and sliderReset carried 1.0.
C7_ResetViewResult ==
    (Loaded /\ event.op \in {"resetView", "resize", "open"}) =>
        /\ initialZoom = FitZoom(image, size)
        /\ minimumZoom = <<Mul(initialZoom, Quarter)>>
        /\ zoom = initialZoom
        /\ origin = CentredOrigin(image, size, zoom)
        /\ sliderReset = <<Scale>>

\* C8: a press records the pointer position and the origin as the anchor, and
\* every move with the button held and no modifier sets origin to the anchor's
\* origin plus the pointer's displacement from the anchor, zoom unchanged.
C8_PanIsRigidTranslation ==
    [][/\ event'.op = "press" =>
            (pressedPoint' = event'.pos /\ oldOrigin' = origin /\ zoom' = zoom)
       /\ (event'.op = "move" /\ ~event'.alt /\ ~event'.ctrl /\ pressedPoint # None) =>
            /\ origin' = PAdd(oldOrigin, PSub(event'.pos, pressedPoint))
            /\ zoom' = zoom
            /\ oldOrigin' = oldOrigin /\ pressedPoint' = pressedPoint]_vars

\* C8 witness: pressed at (100,100) and moved to (150,200) with no modifier:
\* the origin is the press-time origin shifted by (+50,+100).
C8_Witness ==
    /\ Panned /\ pressedPoint = <<100, 100>> /\ event.pos = <<150, 200>>
    /\ origin = PAdd(oldOrigin, <<50, 100>>)

\* C9 as stated: once a wheel event with delta d at zoom z has been handled,
\* slider reaction included, zoom = max(minimumZoom, z + (d/500)*z).
C9_WheelZoomValue ==
    [][(event'.op = "wheel" /\ Loaded /\ fault' = "none") =>
         zoom' = Max(minimumZoom[1], zoom + Mul(Div(event'.arg, WheelStep), zoom))]_vars

\* C10 as stated: a press emits colorPicked once if the pick modifier is held
\* at the press, and not at all otherwise.
C10_PressPicksIffModifier ==
    (event.op = "press" /\ fault = "none") =>
        Len(colorPicked) = (IF event.alt THEN 1 ELSE 0)

\* The render step draws the pick overlay (circle and colour bar).
PickOverlayShown == Len(paintEvent(Self)) > 1

\* C11 as stated: while no pointer button is held the pick position is absent
\* and the render step shows no pick overlay, also after the release that
\* ends a pick drag.
C11_NoPickWhileReleased ==
    pressedPoint = None => (picking = None /\ ~PickOverlayShown)

\* The last event called setImage: the open dialog gave a file, the close
\* button was used, or a drop had a local file as its first URL.
ImageSet ==
    \/ event.op \in {"open", "close"}
    \/ event.op = "drop" /\ isLocalFile(event.arg[1])

\* C12: in every state after construction the controls that need an image are
\* enabled exactly if the viewer's image is not null, and an event that calls
\* setImage emits imageChanged once, carrying whether the new image is not
\* null.
C12_ControlsFollowImage ==
    /\ enabled = Loaded
    /\ ImageSet => imageChanged = <<Loaded>>

\* C12 witness: with an image loaded before, a file that does not decode was
\* opened: the image is null, imageChanged carried false, the controls are off.
C12_Witness ==
    /\ event.op = "open" /\ minimumZoom # None
    /\ IsNull(image) /\ imageChanged = <<FALSE>> /\ ~enabled

\* C13: a move with a button held and the pick modifier (Alt) held, with or
\* without Ctrl, leaves zoom and origin as they were; it sets picking to the
\* pointer position and currentColor to the image's pixel under the pointer,
\* (pos - origin)/zoom, or to None when no image is loaded.
C13_PickMoveKeepsView ==
    [][(event'.op = "move" /\ event'.alt /\ pressedPoint # None) =>
         /\ zoom' = zoom /\ origin' = origin
         /\ picking' = event'.pos
         /\ currentColor' =
              IF Loaded
              THEN PixelColor(image, PointDiv(PSub(event'.pos, origin), zoom))
              ELSE None]_vars

\* C13 witness: with an image at a zoom other than 1, a move with Alt and Ctrl
\* held has picked the colour of a pixel of the image.
C13_Witness ==
    /\ event.op = "move" /\ event.alt /\ event.ctrl /\ pressedPoint # None
    /\ Loaded /\ zoom # Scale /\ picking = event.pos /\ currentColor[1] = "pixel"

\* C14 as stated: once a Ctrl-drag move has been handled, slider reaction
\* included, the image point under the press position is the one that was
\* there at press: (pressedPoint - origin)/zoom equals
\* (pressedPoint - oldOrigin)/oldZoom up to floating-point tolerance.
C14_DragZoomKeepsAnchorPoint ==
    (Loaded /\ DragZoomed /\ fault = "none") =>
        \A i \in 1 .. 2 :
            Abs(ImagePointMilli(pressedPoint[i], origin[i], zoom)
                - ImagePointMilli(pressedPoint[i], oldOrigin[i], oldZoom[1])) <= ToleranceMilli

\* C15: a release clears pressedPoint and moving and leaves zoom, origin,
\* initialZoom, minimumZoom and image as they were; moving implies that
\* pressedPoint is present; a move without pressedPoint changes no field.
C15_ReleaseClearsAnchor ==
    [][/\ event'.op = "release" =>
            /\ pressedPoint' = None /\ moving' = FALSE
            /\ zoom' = zoom /\ origin' = origin /\ initialZoom' = initialZoom
            /\ minimumZoom' = minimumZoom /\ image' = image
       /\ moving' => pressedPoint' # None
       /\ (event'.op = "move" /\ pressedPoint = None) =>
            /\ <<image, size, zoom, initialZoom, minimumZoom, oldZoom, origin, oldOrigin>>'
                 = <<image, size, zoom, initialZoom, minimumZoom, oldZoom, origin, oldOrigin>>
            /\ <<pressedPoint, moving, currentColor, picking, zoomSlider, zoomCombo, enabled>>'
                 = <<pressedPoint, moving, currentColor, picking, zoomSlider, zoomCombo, enabled>>
            /\ sliderReset' = <<>> /\ colorPicked' = <<>> /\ imageChanged' = <<>>]_vars

\* C15 witness: a drag that zoomed has been released: the anchor and the flag
\* are cleared, the zoom the drag left is still there.
C15_Witness ==
    /\ event.op = "release" /\ pressedPoint = None /\ ~moving
    /\ oldZoom # None /\ Loaded /\ zoom # initialZoom

\* A step leaves image, zoom, origin and initialZoom as they were and emits no
\* imageChanged.
DropIgnored ==
    /\ image' = image /\ zoom' = zoom /\ origin' = origin
    /\ initialZoom' = initialZoom /\ imageChanged' = <<>>

\* C16 as stated: a drop whose first URL is no local file, or that carries
\* more than one URL, is ignored.
C16_DropNotSingleLocalIgnored ==
    [][(event'.op = "drop" /\ (~isLocalFile(event'.arg[1]) \/ Len(event'.arg) > 1)) =>
         DropIgnored]_vars

\* C17: handling one event ends with at most one sliderReset emitted and at
\* most one valueChanged of the slider; a valueChanged that no slider move
\* of the user caused follows a sliderReset, and its slot emits no further
\* sliderReset.
C17_OneSliderResetPerEvent ==
    /\ Len(sliderReset) <= 1 /\ Len(valueChanged) <= 1
    /\ (valueChanged # <<>> /\ event.op # "slider") => Len(sliderReset) = 1
    /\ event.op = "slider" => sliderReset = <<>>

\* C17 witness: a wheel event emitted sliderReset, the slider took a new value
\* and its valueChanged slot changed the zoom; nothing more was emitted.
C17_Witness ==
    /\ event.op = "wheel" /\ fault = "none"
    /\ Len(sliderReset) = 1 /\ valueChanged = <<zoomSlider>>

\* C18 as stated: minimumZoom has a value whenever clampZoom is evaluated, so
\* no wheel event, Ctrl-drag move or relative changeZoom ends in a fault, also
\* before any image was loaded.
C18_ZoomOperationsWellDefined ==
    event.op \in {"wheel", "move", "slider", "preset"} => fault = "none"

\* A colour of a pixel of the image: neither None nor the invalid QColor.
RealColor(c) == c # None /\ c[1] = "pixel"

\* C19 as stated: whenever picking is not None, currentColor is a defined,
\* non-null colour, so a press emits colorPicked with a real colour (and does
\* not fail for want of one) and the overlay is painted with a real colour.
C19_PickedColorDefined ==
    /\ picking # None => RealColor(currentColor)
    /\ \A i \in 1 .. Len(colorPicked) : RealColor(colorPicked[i])
    /\ fault # "TypeError"
    /\ PickOverlayShown => RealColor(paintEvent(Self)[3])

\* C20: within one press, a pan move that follows an earlier pan move leaves
\* the origin away from the origin of that earlier move by exactly the
\* pointer's displacement between the two moves, also when a wheel event, a
\* resize, "Reset view", a slider move or a preset was handled between them.
C20_PanDisplacementBetweenMoves ==
    [][(PanMove(event') /\ lastPan # None) =>
         PSub(origin', lastPan[2]) = PSub(event'.pos, lastPan[1])]_vars

\* C20 witness: the second of two pan moves of one press, to another pointer
\* position, with an event between them that is no move and changed origin or
\* zoom: the zoom is no longer the zoom at press.
C20_Witness ==
    /\ Panned /\ lastPan # None /\ lastPan[4] /\ zoom # oldZoom[1]
    /\ event.pos # pressedPoint /\ origin = panOrigin(Self, event.pos)
====
